---- MODULE Spec2Model ----
(***************************************************************************)
(* Contacts API (WEB_HW11): the route handlers of src/routes/contacts.py   *)
(* and src/routes/users.py over the contact store, the user records and    *)
(* the image-hosting provider.                                             *)
(*                                                                         *)
(* The handlers are translated from the routes.  The repository layer      *)
(* (src/repository/contacts.py, src/repository/users.py) and the response  *)
(* schemas (src/schemas.py) are called by the routes but are not part of   *)
(* the sources at hand; they are modelled from the specification.          *)
(***************************************************************************)
EXTENDS Integers, Sequences, FiniteSets, TLC

VARIABLES
    contacts,     \* the Contact table: rows in insertion (primary key) order
    next_id,      \* the next primary key the store generates
    users,        \* the User table: id -> [username, email, avatar]
    cloud,        \* the image-hosting provider: public_id -> version held (0: none)
    cloud_clock,  \* the provider's last issued version token
    reqs,         \* in-flight PATCH /users/avatar requests (position and locals)
    last          \* the last completed request and the response its caller got

vars == <<contacts, next_id, users, cloud, cloud_clock, reqs, last>>

----------------------------------------------------------------------------
(* Bounds of the model *)

MaxId == 2          \* primary keys 1..MaxId
MaxSkip == 1        \* skip ranges over 0..MaxSkip
MaxLimit == 2       \* limit ranges over 1..MaxLimit
MaxUploads == 3     \* uploads the provider accepts in a run
MaxReqs == 2        \* concurrent avatar requests

(* Program constants *)

HTTP_200_OK == 200
HTTP_201_CREATED == 201
HTTP_204_NO_CONTENT == 204
HTTP_404_NOT_FOUND == 404
HTTP_500_INTERNAL_SERVER_ERROR == 500
AvatarWidth == 250
AvatarHeight == 250

None == "None"                 \* an Optional[str] that is absent
NoRow == [id |-> 0]            \* the None a query returns when no row matches
NoContent == [content |-> None] \* a response without a body

UserIds == {1, 2}
ContactIds == 1..MaxId
Files == {"a.png", "b.png"}

\* the values a request may pass for each optional equality filter
FirstNameFilters == {None, "Ann"}
LastNameFilters == {None, "Lee"}
EmailFilters == {None, "bob@x.com"}

\* ContactModel request bodies (already validated by the schema)
ContactModels ==
    { [first_name |-> "Ann", last_name |-> "Lee", email |-> "ann@x.com"],
      [first_name |-> "Ann", last_name |-> "Kim", email |-> "bob@x.com"] }

Min(a, b) == IF a <= b THEN a ELSE b

----------------------------------------------------------------------------
(* The repository layer over the Contact table (db) *)

\* the row a ContactModel body and an owner make
Contact(id, body, user) ==
    [id |-> id, user_id |-> user, first_name |-> body.first_name,
     last_name |-> body.last_name, email |-> body.email]

\* ContactResponse: the fields of the body plus the generated identifier
ContactResponse(c) ==
    [id |-> c.id, first_name |-> c.first_name, last_name |-> c.last_name,
     email |-> c.email]

ContactResponses(s) == [k \in 1..Len(s) |-> ContactResponse(s[k])]

\* the owner's rows that match every supplied equality filter
Matches(c, first_name, last_name, email, user) ==
    /\ c.user_id = user
    /\ first_name # None => c.first_name = first_name
    /\ last_name # None => c.last_name = last_name
    /\ email # None => c.email = email

repository_get_contacts(skip, limit, first_name, last_name, email, user, db) ==
    LET Keep(c) == Matches(c, first_name, last_name, email, user)
        rows == SelectSeq(db, Keep)
    IN  SubSeq(rows, skip + 1, Min(skip + limit, Len(rows)))

repository_get_contact_by_id(contact_id, user, db) ==
    LET found == {k \in 1..Len(db) : db[k].id = contact_id /\ db[k].user_id = user}
    IN  IF found = {} THEN NoRow ELSE db[CHOOSE k \in found : TRUE]

\* returns the new row and the table after the commit
repository_create_contact(body, user, db, id) ==
    [contact |-> Contact(id, body, user),
     db |-> Append(db, Contact(id, body, user))]

repository_update_contact(contact_id, body, user, db) ==
    LET old == repository_get_contact_by_id(contact_id, user, db)
    IN  IF old = NoRow
        THEN [contact |-> NoRow, db |-> db]
        ELSE [contact |-> Contact(contact_id, body, user),
              db |-> [k \in 1..Len(db) |->
                        IF db[k].id = contact_id /\ db[k].user_id = user
                        THEN Contact(contact_id, body, user) ELSE db[k]]]

repository_remove_contact(contact_id, user, db) ==
    LET old == repository_get_contact_by_id(contact_id, user, db)
        Other(c) == ~(c.id = contact_id /\ c.user_id = user)
    IN  IF old = NoRow
        THEN [contact |-> NoRow, db |-> db]
        ELSE [contact |-> old, db |-> SelectSeq(db, Other)]

----------------------------------------------------------------------------
(* What the caller receives *)

HTTPException(status_code, detail) ==
    [status |-> status_code, body |-> [detail |-> detail]]

\* a route's return value under its declared status code: a 204 carries no body
Response(status_code, content) ==
    [status |-> status_code,
     body |-> IF status_code = HTTP_204_NO_CONTENT THEN NoContent ELSE content]

\* an exception no handler catches (store unavailable, upload failure)
Fatal == HTTPException(HTTP_500_INTERNAL_SERVER_ERROR, "Internal Server Error")

----------------------------------------------------------------------------
(* The route handlers of routes/contacts.py: the response, and the table after *)

\* mutants of get_contact_by_params: skip not passed on to the query;
\* the empty result returned as it is
get_contact_by_params_no_skip(skip, limit, first_name, last_name, email, db, current_user) ==
    LET contact == repository_get_contacts(0, limit, first_name, last_name,
                                           email, current_user, db)
    IN  IF contact = <<>>
        THEN HTTPException(HTTP_404_NOT_FOUND, "Contacts not found")
        ELSE Response(HTTP_200_OK, ContactResponses(contact))

get_contact_by_params_unchecked(skip, limit, first_name, last_name, email, db, current_user) ==
    LET contact == repository_get_contacts(skip, limit, first_name, last_name,
                                           email, current_user, db)
    IN  Response(HTTP_200_OK, ContactResponses(contact))

get_contact_by_params(skip, limit, first_name, last_name, email, db, current_user) ==
    LET contact == repository_get_contacts(skip, limit, first_name, last_name,
                                           email, current_user, db)
    IN  IF contact = <<>>
        THEN HTTPException(HTTP_404_NOT_FOUND, "Contacts not found")
        ELSE Response(HTTP_200_OK, ContactResponses(contact))

\* mutant of get_contact: the None check left out
get_contact_unchecked(contact_id, db, current_user) ==
    LET contact == repository_get_contact_by_id(contact_id, current_user, db)
    IN  Response(HTTP_200_OK, contact)

get_contact(contact_id, db, current_user) ==
    LET contact == repository_get_contact_by_id(contact_id, current_user, db)
    IN  IF contact = NoRow
        THEN HTTPException(HTTP_404_NOT_FOUND, "Contact not found")
        ELSE Response(HTTP_200_OK, ContactResponse(contact))

\* mutant of create_contact: the request body answered without the repository's row
create_contact_echo(body, db, current_user, id) ==
    [resp |-> Response(HTTP_201_CREATED, ContactResponse(Contact(id, body, current_user))),
     db |-> db]

create_contact(body, db, current_user, id) ==
    LET new_contact == repository_create_contact(body, current_user, db, id)
    IN  [resp |-> Response(HTTP_201_CREATED, ContactResponse(new_contact.contact)),
         db |-> new_contact.db]

\* mutant of update_contact: the row is looked up and returned, the body never applied
update_contact_lookup_only(body, contact_id, db, current_user) ==
    LET contact == repository_get_contact_by_id(contact_id, current_user, db)
    IN  IF contact = NoRow
        THEN [resp |-> HTTPException(HTTP_404_NOT_FOUND, "Contact not found"), db |-> db]
        ELSE [resp |-> Response(HTTP_200_OK, ContactResponse(contact)), db |-> db]

update_contact(body, contact_id, db, current_user) ==
    LET contact == repository_update_contact(contact_id, body, current_user, db)
    IN  IF contact.contact = NoRow
        THEN [resp |-> HTTPException(HTTP_404_NOT_FOUND, "Contact not found"),
              db |-> contact.db]
        ELSE [resp |-> Response(HTTP_200_OK, ContactResponse(contact.contact)),
              db |-> contact.db]

remove_tag(contact_id, db, current_user) ==
    LET contact == repository_remove_contact(contact_id, current_user, db)
    IN  IF contact.contact = NoRow
        THEN [resp |-> HTTPException(HTTP_404_NOT_FOUND, "Contact not found"),
              db |-> contact.db]
        ELSE [resp |-> Response(HTTP_204_NO_CONTENT, contact.contact),
              db |-> contact.db]

----------------------------------------------------------------------------
(* The image-hosting provider and the repository layer over the User table *)

NoUrl == [public_id |-> None]  \* the avatar column when it is NULL

PublicId(username) == "ContactsApp/" \o username

\* cloudinary.uploader.upload: stores the file under public_id and returns the
\* version token of what the provider now holds there
uploader_upload(file, public_id, overwrite, held, clock) ==
    IF held[public_id].version # 0 /\ ~overwrite
    THEN [r |-> [version |-> held[public_id].version], cloud |-> held, clock |-> clock]
    ELSE [r |-> [version |-> clock + 1],
          cloud |-> [held EXCEPT ![public_id] = [version |-> clock + 1, file |-> file]],
          clock |-> clock + 1]

\* CloudinaryImage(public_id).build_url(...): the parts the URL is built from
build_url(public_id, width, height, crop, version) ==
    [public_id |-> public_id, width |-> width, height |-> height, crop |-> crop,
     version |-> version]

repository_update_avatar(email, url, db) ==
    [u \in DOMAIN db |-> IF db[u].email = email THEN [db[u] EXCEPT !.avatar = url]
                         ELSE db[u]]

\* UserDb: the user's row as the response shows it
UserDb(id, db) ==
    [id |-> id, username |-> db[id].username, email |-> db[id].email,
     avatar |-> db[id].avatar]

----------------------------------------------------------------------------
(* The route handlers of routes/users.py *)

read_users_me(current_user, db) == Response(HTTP_200_OK, UserDb(current_user, db))

\* mutant of avatar_upload: overwrite left at False
avatar_upload_keep(file, current_user, db, held, clock) ==
    uploader_upload(file, PublicId(db[current_user].username), FALSE, held, clock)

\* lines 51-52: the upload
avatar_upload(file, current_user, db, held, clock) ==
    uploader_upload(file, PublicId(db[current_user].username), TRUE, held, clock)

\* lines 53-54: the URL, from the version the upload returned
avatar_src_url(current_user, db, r) ==
    build_url(PublicId(db[current_user].username), AvatarWidth, AvatarHeight, "fill",
              r.version)

\* line 55: the URL is saved on the user's row
avatar_save(current_user, src_url, db) ==
    repository_update_avatar(db[current_user].email, src_url, db)

\* the whole handler: the response, the provider and the User table after
update_avatar_user(file, current_user, db, held, clock) ==
    LET up == avatar_upload(file, current_user, db, held, clock)
        src_url == avatar_src_url(current_user, db, up.r)
        user == avatar_save(current_user, src_url, db)
    IN  [resp |-> Response(HTTP_200_OK, UserDb(current_user, user)),
         db |-> user, cloud |-> up.cloud, clock |-> up.clock]

----------------------------------------------------------------------------
(* State *)

NoArg == [contact_id |-> 0, data |-> None, skip |-> 0, limit |-> 0,
          first_name |-> None, last_name |-> None, email |-> None, file |-> None]

Completed(op, user, arg, resp) ==
    [op |-> op, user |-> user, arg |-> arg, status |-> resp.status, body |-> resp.body]

IdleReq == [pc |-> "idle", user |-> 0, file |-> None, r |-> [version |-> 0],
            src_url |-> NoUrl]

Usernames == [u \in UserIds |-> IF u = 1 THEN "ann" ELSE "bob"]
UserEmails == [u \in UserIds |-> IF u = 1 THEN "ann@x.com" ELSE "bob@x.com"]

Init ==
    /\ contacts = <<>>
    /\ next_id = 1
    /\ users = [u \in UserIds |->
                  [username |-> Usernames[u], email |-> UserEmails[u], avatar |-> NoUrl]]
    /\ cloud = [p \in {PublicId(Usernames[u]) : u \in UserIds} |->
                  [version |-> 0, file |-> None]]
    /\ cloud_clock = 0
    /\ reqs = [r \in 1..MaxReqs |-> IdleReq]
    /\ last = Completed("none", 0, NoArg, [status |-> 0, body |-> NoContent])

----------------------------------------------------------------------------
(* Requests to /contacts *)

List ==
    \E current_user \in UserIds, skip \in 0..MaxSkip, limit \in 1..MaxLimit,
       first_name \in FirstNameFilters, last_name \in LastNameFilters,
       email \in EmailFilters :
        /\ last' = Completed("list", current_user,
                             [NoArg EXCEPT !.skip = skip, !.limit = limit,
                                 !.first_name = first_name, !.last_name = last_name,
                                 !.email = email],
                             get_contact_by_params(skip, limit, first_name, last_name,
                                                   email, contacts, current_user))
        /\ UNCHANGED <<contacts, next_id, users, cloud, cloud_clock, reqs>>

GetByID ==
    \E current_user \in UserIds, contact_id \in ContactIds :
        /\ last' = Completed("get", current_user,
                             [NoArg EXCEPT !.contact_id = contact_id],
                             get_contact(contact_id, contacts, current_user))
        /\ UNCHANGED <<contacts, next_id, users, cloud, cloud_clock, reqs>>

Create ==
    \E current_user \in UserIds, body \in ContactModels :
        /\ next_id <= MaxId
        /\ LET done == create_contact(body, contacts, current_user, next_id)
           IN  /\ contacts' = done.db
               /\ last' = Completed("create", current_user,
                                    [NoArg EXCEPT !.data = body], done.resp)
        /\ next_id' = next_id + 1
        /\ UNCHANGED <<users, cloud, cloud_clock, reqs>>

Update ==
    \E current_user \in UserIds, contact_id \in ContactIds, body \in ContactModels :
        LET done == update_contact(body, contact_id, contacts, current_user)
        IN  /\ contacts' = done.db
            /\ last' = Completed("update", current_user,
                                 [NoArg EXCEPT !.contact_id = contact_id, !.data = body],
                                 done.resp)
            /\ UNCHANGED <<next_id, users, cloud, cloud_clock, reqs>>

Delete ==
    \E current_user \in UserIds, contact_id \in ContactIds :
        LET done == remove_tag(contact_id, contacts, current_user)
        IN  /\ contacts' = done.db
            /\ last' = Completed("delete", current_user,
                                 [NoArg EXCEPT !.contact_id = contact_id], done.resp)
            /\ UNCHANGED <<next_id, users, cloud, cloud_clock, reqs>>

Next == List \/ GetByID \/ Create \/ Update \/ Delete

Spec == Init /\ [][Next]_vars

----------------------------------------------------------------------------
(* Requests to /users, one at a time *)

\* the store already holds a contact of each user
InitUsers ==
    /\ contacts = create_contact(CHOOSE d \in ContactModels : d.last_name = "Kim",
                                 create_contact(CHOOSE d \in ContactModels :
                                                    d.last_name = "Lee",
                                                <<>>, 1, 1).db,
                                 2, 2).db
    /\ next_id = 3
    /\ users = [u \in UserIds |->
                  [username |-> Usernames[u], email |-> UserEmails[u], avatar |-> NoUrl]]
    /\ cloud = [p \in {PublicId(Usernames[u]) : u \in UserIds} |->
                  [version |-> 0, file |-> None]]
    /\ cloud_clock = 0
    /\ reqs = [r \in 1..MaxReqs |-> IdleReq]
    /\ last = Completed("none", 0, NoArg, [status |-> 0, body |-> NoContent])

GetCurrent ==
    \E current_user \in UserIds :
        /\ last' = Completed("me", current_user, NoArg, read_users_me(current_user, users))
        /\ UNCHANGED <<contacts, next_id, users, cloud, cloud_clock, reqs>>

\* the handler runs to its end, or an exception ends it at the upload (line 51)
\* or at the save (line 55)
UpdateAvatar ==
    \E current_user \in UserIds, file \in Files,
       outcome \in {"ok", "upload fails", "save fails"} :
        /\ cloud_clock < MaxUploads
        /\ LET done == update_avatar_user(file, current_user, users, cloud, cloud_clock)
               arg == [NoArg EXCEPT !.file = file]
           IN  /\ last' = Completed("avatar", current_user, arg,
                                    IF outcome = "ok" THEN done.resp ELSE Fatal)
               /\ cloud' = IF outcome = "upload fails" THEN cloud ELSE done.cloud
               /\ cloud_clock' = IF outcome = "upload fails" THEN cloud_clock
                                 ELSE done.clock
               /\ users' = IF outcome = "ok" THEN done.db ELSE users
        /\ UNCHANGED <<contacts, next_id, reqs>>

NextUsers == GetCurrent \/ UpdateAvatar

SpecUsers == InitUsers /\ [][NextUsers]_vars

----------------------------------------------------------------------------
(* Requests to PATCH /users/avatar served concurrently: each request runs   *)
(* lines 51-52, 53-54 and 55 as steps of its own                            *)

Waiting == Cardinality({r \in 1..MaxReqs : reqs[r].pc = "upload"})

AvatarBegin ==
    \E r \in 1..MaxReqs, current_user \in UserIds, file \in Files :
        /\ reqs[r].pc = "idle"
        /\ cloud_clock + Waiting < MaxUploads
        /\ reqs' = [reqs EXCEPT ![r] = [IdleReq EXCEPT !.pc = "upload",
                                           !.user = current_user, !.file = file]]
        /\ UNCHANGED <<contacts, next_id, users, cloud, cloud_clock, last>>

AvatarUpload ==
    \E r \in 1..MaxReqs :
        /\ reqs[r].pc = "upload"
        /\ LET up == avatar_upload(reqs[r].file, reqs[r].user, users, cloud, cloud_clock)
           IN  /\ cloud' = up.cloud
               /\ cloud_clock' = up.clock
               /\ reqs' = [reqs EXCEPT ![r].pc = "build_url", ![r].r = up.r]
        /\ UNCHANGED <<contacts, next_id, users, last>>

AvatarBuildUrl ==
    \E r \in 1..MaxReqs :
        /\ reqs[r].pc = "build_url"
        /\ reqs' = [reqs EXCEPT ![r].pc = "update_avatar",
                        ![r].src_url = avatar_src_url(reqs[r].user, users, reqs[r].r)]
        /\ UNCHANGED <<contacts, next_id, users, cloud, cloud_clock, last>>

AvatarSave ==
    \E r \in 1..MaxReqs :
        /\ reqs[r].pc = "update_avatar"
        /\ users' = avatar_save(reqs[r].user, reqs[r].src_url, users)
        /\ last' = Completed("avatar", reqs[r].user, [NoArg EXCEPT !.file = reqs[r].file],
                             Response(HTTP_200_OK, UserDb(reqs[r].user, users')))
        /\ reqs' = [reqs EXCEPT ![r] = IdleReq]
        /\ UNCHANGED <<contacts, next_id, cloud, cloud_clock>>

NextConc == AvatarBegin \/ AvatarUpload \/ AvatarBuildUrl \/ AvatarSave

SpecConc == Init /\ [][NextConc]_vars

----------------------------------------------------------------------------
(* Properties *)

Owned(db, id, user) == \E k \in 1..Len(db) : db[k].id = id /\ db[k].user_id = user
OwnedByOther(db, id, user) ==
    \E k \in 1..Len(db) : db[k].id = id /\ db[k].user_id # user
Row(db, id) == db[CHOOSE k \in 1..Len(db) : db[k].id = id]
Owners(db) == {<<db[k].id, db[k].user_id>> : k \in 1..Len(db)}
Stored(id, data) ==
    [id |-> id, first_name |-> data.first_name, last_name |-> data.last_name,
     email |-> data.email]

\* the rows of the last request's user that pass the filters it supplied, in table order
ListMatching ==
    LET a == last.arg
        Keep(c) == /\ c.user_id = last.user
                   /\ a.first_name = None \/ c.first_name = a.first_name
                   /\ a.last_name = None \/ c.last_name = a.last_name
                   /\ a.email = None \/ c.email = a.email
    IN  SelectSeq(contacts, Keep)

\* C1: a GetByID, Update or Delete on a contact that another user owns answers
\* 404 and leaves the contact store as it was.
C1_OwnershipIsolation ==
    [][(/\ last'.op \in {"get", "update", "delete"}
        /\ OwnedByOther(contacts, last'.arg.contact_id, last'.user))
       => /\ last'.status = 404
          /\ contacts' = contacts
          /\ next_id' = next_id]_vars

C1_Witness ==
    /\ last.op = "update"
    /\ last.status = 404
    /\ OwnedByOther(contacts, last.arg.contact_id, last.user)

\* C2: Create answers 201 with the body's fields and an identifier no stored contact
\* had, stores the contact under the requesting user, and GetByID of that identifier
\* by the same user then returns the same fields and identifier.
C2_CreateRoundTrip ==
    [][last'.op = "create"
       => LET i == last'.body.id
              U == last'.user
          IN  /\ last'.status = 201
              /\ \A k \in 1..Len(contacts) : contacts[k].id # i
              /\ Owned(contacts', i, U)
              /\ last'.body = Stored(i, last'.arg.data)
              /\ get_contact(i, contacts', U)
                   = [status |-> 200, body |-> Stored(i, last'.arg.data)]]_vars

C2_Witness ==
    /\ last.op = "create"
    /\ last.status = 201
    /\ Len(contacts) >= 2
    /\ get_contact(last.body.id, contacts, last.user).status = 200

\* C3: an Update of a contact the requesting user owns answers 200, and GetByID then
\* returns exactly the new fields under the same identifier and owner; no Update
\* changes which user owns which identifier.
C3_UpdateReplaces ==
    [][last'.op = "update"
       => LET i == last'.arg.contact_id
              U == last'.user
          IN  /\ Owners(contacts') = Owners(contacts)
              /\ Owned(contacts, i, U)
                   => /\ last'.status = 200
                      /\ last'.body = Stored(i, last'.arg.data)
                      /\ get_contact(i, contacts', U)
                           = [status |-> 200, body |-> Stored(i, last'.arg.data)]]_vars

C3_Witness ==
    /\ last.op = "update"
    /\ last.status = 200
    /\ Len(contacts) >= 2
    /\ get_contact(last.arg.contact_id, contacts, last.user).body
         = Stored(last.arg.contact_id, last.arg.data)

\* C4: a Delete of a contact the requesting user owns hands the caller the contact
\* as it was, and afterwards both GetByID and a second Delete of it answer 404.
C4_DeleteReturnsPrior ==
    [][(last'.op = "delete" /\ Owned(contacts, last'.arg.contact_id, last'.user))
       => LET i == last'.arg.contact_id
              U == last'.user
          IN  /\ last'.body = Row(contacts, i)
              /\ get_contact(i, contacts', U).status = 404
              /\ remove_tag(i, contacts', U).resp.status = 404]_vars

\* what of C4 the code does keep: the row is gone, and stays gone
C4_DeletedIsGone ==
    [][(last'.op = "delete" /\ Owned(contacts, last'.arg.contact_id, last'.user))
       => LET i == last'.arg.contact_id
              U == last'.user
          IN  /\ last'.status = 204
              /\ get_contact(i, contacts', U).status = 404
              /\ remove_tag(i, contacts', U).resp.status = 404
              /\ remove_tag(i, contacts', U).db = contacts']_vars

C4_NoIdReuse ==
    \A i \in 1..(next_id - 1) :
        (\A k \in 1..Len(contacts) : contacts[k].id # i)
            => \A U \in UserIds : get_contact(i, contacts, U).status = 404

\* C5: a successful List returns at most limit contacts, all of the requesting user
\* and passing every supplied filter: the rows skip+1 .. skip+limit of that user's
\* matching rows, in table order.
C5_ListSlice ==
    (last.op = "list" /\ last.status = 200)
        => LET a == last.arg
               m == ListMatching
           IN  /\ Len(last.body) <= a.limit
               /\ Len(last.body) = Min(a.limit, Len(m) - a.skip)
               /\ \A k \in 1..Len(last.body) :
                    /\ last.body[k] = Stored(m[a.skip + k].id, m[a.skip + k])
                    /\ Owned(contacts, last.body[k].id, last.user)
                    /\ a.first_name # None => last.body[k].first_name = a.first_name
                    /\ a.last_name # None => last.body[k].last_name = a.last_name
                    /\ a.email # None => last.body[k].email = a.email

C5_Witness ==
    /\ last.op = "list"
    /\ last.status = 200
    /\ last.arg.skip = 1
    /\ last.arg.first_name # None
    /\ Len(ListMatching) = 2
    /\ Len(last.body) = 1

C7_EmptyListIsSuccess ==
    (last.op = "list" /\ Len(ListMatching) = 0)
        => (last.status = 200 /\ last.body = <<>>)

\* C8: a successful UpdateAvatar puts the file at 'ContactsApp/<username>',
\* replacing what was there, sets the user's avatar to the URL of that path at
\* 250x250 'fill' with the version the upload returned, and changes nothing else.
C8_AvatarEffectAndFrame ==
    [][(last'.op = "avatar" /\ last'.status = 200)
       => LET U == last'.user
              p == "ContactsApp/" \o users[U].username
          IN  /\ cloud'[p].file = last'.arg.file
              /\ cloud'[p].version # cloud[p].version
              /\ \A q \in DOMAIN cloud \ {p} : cloud'[q] = cloud[q]
              /\ users'[U] = [username |-> users[U].username, email |-> users[U].email,
                              avatar |-> [public_id |-> p, width |-> 250, height |-> 250,
                                          crop |-> "fill", version |-> cloud'[p].version]]
              /\ \A V \in UserIds \ {U} : users'[V] = users[V]
              /\ contacts' = contacts
              /\ next_id' = next_id]_vars

C8_Witness ==
    /\ last.op = "avatar"
    /\ last.status = 200
    /\ cloud_clock >= 2
    /\ contacts # <<>>
    /\ users[last.user].avatar.version = cloud_clock
    /\ \E V \in UserIds \ {last.user} : users[V].avatar # NoUrl

\* C9: an operation that ends in NotFound or in a fatal failure leaves the contact
\* store, the user records and the provider exactly as they were.
C9_NoPartialFailure ==
    [][last'.status \in {404, 500}
       => (contacts' = contacts /\ users' = users /\ cloud' = cloud)]_vars

\* C10: once every avatar request has completed, the version in a user's stored
\* avatar is the version the provider holds at that user's path.
C10_AvatarVersionCurrent ==
    (\A r \in 1..MaxReqs : reqs[r].pc = "idle")
        => \A U \in UserIds :
             LET p == "ContactsApp/" \o users[U].username
             IN  cloud[p].version # 0
                   => (users[U].avatar # NoUrl
                       /\ users[U].avatar.version = cloud[p].version)

====
